---- MODULE Spec2Model ----
(***************************************************************************)
(* A model of the unassigner repository:                                   *)
(*   - BlastExtender.extend_hit          (src/unassign/search_blast.py)    *)
(*   - beta_binomial_cdf and ConstantMismatchDistribution                  *)
(*                                       (src/unassigner/algorithm.py)     *)
(*   - UnassignerAlgorithm.unassign, _align_query_to_type_strain and       *)
(*     _filter_alignments                (src/unassigner/algorithm.py)     *)
(*   - the legacy Unassigner.unassign    (src/unassign/command.py)         *)
(*                                                                         *)
(* Strings are sequences of one-character strings, so that slicing and     *)
(* concatenation are the Sequences operators.                              *)
(***************************************************************************)
EXTENDS Integers, Sequences, FiniteSets, TLC

VARIABLES
    \* BlastExtender
    seqs,       \* BlastExtender.seqs: the dict of full query sequences
    db,         \* the BLAST database behind BlastExtender.db, as a dict
    xcall,      \* <<>> before extend_hit is called, then <<[hit, result]>>
    \* ConstantMismatchDistribution
    mm,         \* the mismatch distributions constructed so far
    thr,        \* thr[i] is what mm[i].unassign_threshold() returned
    \* UnassignerAlgorithm._filter_alignments
    fcall,      \* <<>> before the call, then <<[query_alignments, retained]>>
    \* UnassignerAlgorithm.unassign
    algo,                 \* the class of self
    query_seqs,           \* the (query_id, sequence) pairs passed in
    hits,                 \* what aligner.search_species yields, in its order
    aligner_raises,       \* whether the aligner raises after yielding hits
    pc,                   \* where the generator unassign stands
    consumed,             \* how many of hits have been taken from the aligner
    alignments_by_query,  \* the defaultdict of _align_query_to_type_strain
    qi,                   \* index of the query a loop over query_ids is at
    mm_distributions,     \* step 2 of unassign
    results,              \* step 3 of unassign: (query_id, result) pairs
    results_by_query,     \* step 4 of unassign: the defaultdict
    emitted,              \* the (query_id, query_results) pairs yielded
    \* the legacy Unassigner.unassign
    species_hits,         \* what aligner.align_query_to_typestrains returned
    ref_db,               \* the species the reference database has hits for
    lpc,                  \* where Unassigner.unassign stands
    grouped_refseq_hits,  \* the groups the iterator of that name yields
    gi,                   \* how many groups have been taken from it
    r_hits_species_id,    \* the species id of the group at hand
    r_hits,               \* the reference hits of the group at hand
    si,                   \* index of the species hit the loop is at
    evaluated             \* the calls of _evaluate_confidence made so far

xvars == <<seqs, db, xcall>>

mvars == <<mm, thr>>

fvars == <<fcall>>

pvars == <<algo, query_seqs, hits, aligner_raises, pc, consumed, alignments_by_query,
           qi, mm_distributions, results, results_by_query, emitted>>

lvars == <<species_hits, ref_db, lpc, grouped_refseq_hits, gi, r_hits_species_id,
           r_hits, si, evaluated>>

vars == <<seqs, db, xcall, mm, thr, fcall, algo, query_seqs, hits, aligner_raises, pc,
          consumed, alignments_by_query, qi, mm_distributions, results,
          results_by_query, emitted, species_hits, ref_db, lpc, grouped_refseq_hits,
          gi, r_hits_species_id, r_hits, si, evaluated>>

(***************************************************************************)
(* Bounds                                                                  *)
(***************************************************************************)
\* longest full sequence; coordinates range over 0 .. MaxLen + 1
MaxLen == 3

\* widest observed region, in alignment columns
MaxRegion == 41

\* most mismatches in a region
MaxMismatch == 2

\* most subject positions outside the region
MaxNonregion == 2

\* most candidates handed to _filter_alignments in one call
MaxCandidates == 3

\* most (query_id, sequence) pairs in a batch
MaxQueries == 3

\* most alignments the aligner yields for a batch
MaxHits == 3

\* most species hits in a run of the legacy Unassigner
MaxSpeciesHits == 3

(***************************************************************************)
(* Python helpers                                                          *)
(***************************************************************************)
Min(a, b) == IF a <= b THEN a ELSE b

Max(a, b) == IF a >= b THEN a ELSE b

\* s[:n], with Python's clipping and its negative index
PyPrefix(s, n) ==
    IF n >= 0 THEN SubSeq(s, 1, Min(n, Len(s)))
    ELSE SubSeq(s, 1, Max(Len(s) + n, 0))

\* s[-n:], with Python's clipping; s[-0:] is s[0:], the whole string
PySuffix(s, n) ==
    IF n > 0 THEN SubSeq(s, Len(s) - Min(n, Len(s)) + 1, Len(s))
    ELSE SubSeq(s, Min(0 - n, Len(s)) + 1, Len(s))

\* "-" * n (the empty string for n <= 0)
Gaps(n) == [i \in 1 .. Max(n, 0) |-> "-"]

\* a dict built from (key, value) pairs
HasKey(d, k) == \E p \in d : p[1] = k

Lookup(d, k) == (CHOOSE p \in d : p[1] = k)[2]

(***************************************************************************)
(* BlastExtender                                                           *)
(***************************************************************************)
\* faulty variant: the right end is not looked at
_needs_realignment_LeftOnly(hit) ==
    (hit.qstart > 1) /\ (hit.sstart > 1)

_needs_realignment(hit) ==
    LET more_to_the_left == (hit.qstart > 1) /\ (hit.sstart > 1)
        more_to_the_right == (hit.qend < hit.qlen) /\ (hit.send < hit.slen)
    IN  more_to_the_left \/ more_to_the_right

\* faulty variant: qend is compared with slen
_is_global_Typo(hit) ==
    /\ hit.qstart = 1
    /\ hit.sstart = 1
    /\ hit.qend = hit.slen
    /\ hit.send = hit.slen

_is_global(hit) ==
    /\ hit.qstart = 1
    /\ hit.sstart = 1
    /\ hit.qend = hit.qlen
    /\ hit.send = hit.slen

\* what a padding helper hands back: a pair of pads, or a raised ValueError
Pads(q, s) == [status |-> "ok", q |-> q, s |-> s, msg |-> ""]

PadError(msg) == [status |-> "ValueError", q |-> <<>>, s |-> <<>>, msg |-> msg]

_add_endgaps_left(hit, qseq, sseq) ==
    IF (hit.qstart = 1) /\ (hit.sstart = 1) THEN Pads(<<>>, <<>>)
    ELSE IF (hit.qstart > 1) /\ (hit.sstart = 1) THEN
        LET endgap_len == hit.qstart - 1
        IN  Pads(PyPrefix(qseq, endgap_len), Gaps(endgap_len))
    ELSE IF (hit.qstart = 1) /\ (hit.sstart > 1) THEN
        LET endgap_len == hit.sstart - 1
        IN  Pads(Gaps(endgap_len), PyPrefix(sseq, endgap_len))
    ELSE IF (hit.qstart > 1) /\ (hit.sstart > 1) THEN
        PadError("Unaligned sequence on left")
    ELSE PadError("Query or subject start position less than 1")

\* faulty variant: the pad is taken from the start of the sequence
_add_endgaps_right_Prefix(hit, qseq, sseq) ==
    IF (hit.qend = hit.qlen) /\ (hit.send = hit.slen) THEN Pads(<<>>, <<>>)
    ELSE IF (hit.qend < hit.qlen) /\ (hit.send = hit.slen) THEN
        LET endgap_len == hit.qlen - hit.qend
        IN  Pads(PyPrefix(qseq, endgap_len), Gaps(endgap_len))
    ELSE IF (hit.qend = hit.qlen) /\ (hit.send < hit.slen) THEN
        LET endgap_len == hit.slen - hit.send
        IN  Pads(Gaps(endgap_len), PyPrefix(sseq, endgap_len))
    ELSE IF (hit.qend < hit.qlen) /\ (hit.send < hit.qlen) THEN
        PadError("Unaligned sequence on right")
    ELSE PadError("Query or subject end position greater than length")

_add_endgaps_right(hit, qseq, sseq) ==
    IF (hit.qend = hit.qlen) /\ (hit.send = hit.slen) THEN Pads(<<>>, <<>>)
    ELSE IF (hit.qend < hit.qlen) /\ (hit.send = hit.slen) THEN
        LET endgap_len == hit.qlen - hit.qend
        IN  Pads(PySuffix(qseq, endgap_len), Gaps(endgap_len))
    ELSE IF (hit.qend = hit.qlen) /\ (hit.send < hit.slen) THEN
        LET endgap_len == hit.slen - hit.send
        IN  Pads(Gaps(endgap_len), PySuffix(sseq, endgap_len))
    \* the source compares send with qlen here, not with slen
    ELSE IF (hit.qend < hit.qlen) /\ (hit.send < hit.qlen) THEN
        PadError("Unaligned sequence on right")
    ELSE PadError("Query or subject end position greater than length")

\* pairwise2.align.globalms(sseq, qseq, ...)[0] is Biopython's, not this
\* repository's: its two aligned strings are kept symbolic, as the token
\* sequences globalms(sseq,qseq)[0] and globalms(sseq,qseq)[1].
globalms(a, b, i) == <<"globalms(">> \o a \o <<",">> \o b \o <<")[", i, "]">>

\* returns the pair (query_seq, subj_seq)
align_semiglobal(qseq, sseq) ==
    LET subj_seq == globalms(sseq, qseq, "0")
        query_seq == globalms(sseq, qseq, "1")
    IN  <<query_seq, subj_seq>>

\* the outcome of extend_hit: an AlignedSubjectQuery or the exception raised,
\* with the steps that ran (dict lookup, subject fetch, realignment, padding)
Aligned(hit, q, s, trace) ==
    [status |-> "ok", msg |-> "", query_id |-> hit.qseqid, subject_id |-> hit.sseqid,
     aligned_qseq |-> q, aligned_sseq |-> s, trace |-> trace]

Raised(hit, exc, msg, trace) ==
    [status |-> exc, msg |-> msg, query_id |-> hit.qseqid, subject_id |-> hit.sseqid,
     aligned_qseq |-> <<>>, aligned_sseq |-> <<>>, trace |-> trace]

extend_hit(hit, seqs_, db_) ==
    IF _is_global(hit) THEN Aligned(hit, hit.qseq, hit.sseq, <<>>)
    ELSE IF ~HasKey(seqs_, hit.qseqid) THEN
        Raised(hit, "KeyError", "", <<"seqs[qseqid]">>)
    ELSE LET qseq == Lookup(seqs_, hit.qseqid) IN
    IF Len(qseq) # hit.qlen THEN
        Raised(hit, "AssertionError", "", <<"seqs[qseqid]">>)
    ELSE IF ~HasKey(db_, hit.sseqid) THEN
        Raised(hit, "CalledProcessError", "", <<"seqs[qseqid]", "_get_subject_seq">>)
    ELSE LET sseq == Lookup(db_, hit.sseqid) IN
    IF Len(sseq) # hit.slen THEN
        Raised(hit, "AssertionError", "", <<"seqs[qseqid]", "_get_subject_seq">>)
    ELSE IF _needs_realignment(hit) THEN
        LET a == align_semiglobal(qseq, sseq)
        IN  Aligned(hit, a[1], a[2],
                    <<"seqs[qseqid]", "_get_subject_seq", "align_semiglobal">>)
    ELSE LET left == _add_endgaps_left(hit, qseq, sseq) IN
    IF left.status # "ok" THEN
        Raised(hit, left.status, left.msg,
               <<"seqs[qseqid]", "_get_subject_seq", "_add_endgaps_left">>)
    ELSE LET right == _add_endgaps_right(hit, qseq, sseq) IN
    IF right.status # "ok" THEN
        Raised(hit, right.status, right.msg,
               <<"seqs[qseqid]", "_get_subject_seq", "_add_endgaps_left",
                 "_add_endgaps_right">>)
    ELSE Aligned(hit, left.q \o hit.qseq \o right.q, left.s \o hit.sseq \o right.s,
                 <<"seqs[qseqid]", "_get_subject_seq", "_add_endgaps_left",
                   "_add_endgaps_right">>)

(***************************************************************************)
(* The inputs of the extender                                              *)
(***************************************************************************)
QueryBases == <<"A", "C", "G", "T", "A", "C", "G", "T">>

SubjectBases == <<"T", "G", "C", "A", "T", "G", "C", "A">>

\* the stored full sequences: absent, or of any length 1 .. MaxLen
SeqDicts == {{}} \cup {{<<"q1", SubSeq(QueryBases, 1, n)>>} : n \in 1 .. MaxLen}

DbDicts == {{}} \cup {{<<"s1", SubSeq(SubjectBases, 1, n)>>} : n \in 1 .. MaxLen}

\* the aligned substrings (qseq, sseq) a hit reports; the last pair is of
\* unequal lengths, which BLAST never reports and the code never checks
HitAligned ==
    { <<<<"a">>, <<"a">>>>,
      <<<<"a", "-">>, <<"a", "c">>>>,
      <<<<"a", "c">>, <<"t", "-">>>>,
      <<<<"a", "c">>, <<"a">>>> }

Coords == 0 .. MaxLen + 1

Hits ==
    { [qseqid |-> "q1", sseqid |-> "s1",
       qstart |-> c[1], qend |-> c[2], sstart |-> c[3], send |-> c[4],
       qlen |-> l[1], slen |-> l[2], qseq |-> a[1], sseq |-> a[2]] :
      c \in Coords \X Coords \X Coords \X Coords,
      l \in (1 .. MaxLen) \X (1 .. MaxLen),
      a \in HitAligned }

\* one call of extend_hit; the extender keeps no state between calls, so a
\* behaviour holds one call
ExtendHit ==
    /\ xcall = <<>>
    /\ \E hit \in Hits :
        xcall' = <<[hit |-> hit, result |-> extend_hit(hit, seqs, db)]>>
    /\ UNCHANGED <<seqs, db>>
    /\ UNCHANGED <<mvars, fvars, pvars, lvars>>

XNext == ExtendHit

(***************************************************************************)
(* The beta-binomial statistic.  The source computes it in floating point  *)
(* (log-space); the model computes the same quantity exactly, as a         *)
(* fraction [num, den].  alpha and beta are half-integers in every call    *)
(* (a count plus the prior 0.5), so they are carried doubled: alpha2 is    *)
(* 2 * alpha.  With that,                                                  *)
(*   C(n,k) B(k+alpha, n-k+beta) / B(alpha, beta)                          *)
(*     = C(n,k) * prod_{i<k}(alpha2+2i) * prod_{i<n-k}(beta2+2i)           *)
(*       / prod_{i<n}(alpha2+beta2+2i).                                    *)
(***************************************************************************)
Rat(n, d) == [num |-> n, den |-> d]

RatAdd(a, b) ==
    IF a.den = b.den THEN Rat(a.num + b.num, a.den)
    ELSE Rat(a.num * b.den + b.num * a.den, a.den * b.den)

RatSub(a, b) ==
    IF a.den = b.den THEN Rat(a.num - b.num, a.den)
    ELSE Rat(a.num * b.den - b.num * a.den, a.den * b.den)

\* a <= b and a < b, for fractions with positive denominators
RatLeq(a, b) ==
    IF a.den = b.den THEN a.num <= b.num ELSE a.num * b.den <= b.num * a.den

RatLess(a, b) ==
    IF a.den = b.den THEN a.num < b.num ELSE a.num * b.den < b.num * a.den

\* scipy.special.comb(n, k): 0 outside 0 <= k <= n
RECURSIVE comb(_, _)
comb(n, k) ==
    IF k < 0 \/ k > n \/ n < 0 THEN 0
    ELSE IF k = 0 \/ k = n THEN 1
    ELSE comb(n - 1, k - 1) + comb(n - 1, k)

\* x2 * (x2 + 2) * ... (j factors): 2^j times the rising factorial of x2/2
RECURSIVE Rising2(_, _)
Rising2(x2, j) == IF j <= 0 THEN 1 ELSE x2 * Rising2(x2 + 2, j - 1)

beta_binomial_pdf(k, n, alpha2, beta2) ==
    LET binom_coeff == comb(n, k)
    IN  IF binom_coeff = 0 THEN Rat(0, 1)
        ELSE Rat(binom_coeff * Rising2(alpha2, k) * Rising2(beta2, n - k),
                 Rising2(alpha2 + beta2, n))

\* the while loop of beta_binomial_cdf, entered with k and val
RECURSIVE cdf_loop(_, _, _, _, _, _)
cdf_loop(k, val, k_max, n, alpha2, beta2) ==
    IF k <= k_max
    THEN cdf_loop(k + 1, RatAdd(val, beta_binomial_pdf(k, n, alpha2, beta2)),
                  k_max, n, alpha2, beta2)
    ELSE val

\* faulty variant: the loop runs one round too many
RECURSIVE cdf_loop_Inclusive(_, _, _, _, _, _)
cdf_loop_Inclusive(k, val, k_max, n, alpha2, beta2) ==
    IF k <= k_max + 1
    THEN cdf_loop_Inclusive(k + 1, RatAdd(val, beta_binomial_pdf(k, n, alpha2, beta2)),
                            k_max, n, alpha2, beta2)
    ELSE val

\* faulty variant: the loop runs one round too many
beta_binomial_cdf_OffByOne(k_max, n, alpha2, beta2) ==
    cdf_loop_Inclusive(0, Rat(0, 1), k_max, n, alpha2, beta2)

beta_binomial_cdf(k_max, n, alpha2, beta2) ==
    cdf_loop(0, Rat(0, 1), k_max, n, alpha2, beta2)

\* twice prior_alpha and twice prior_beta
prior_alpha2 == 1

prior_beta2 == 1

\* min_id=0.975, in thousandths
min_id == 975

\* ConstantMismatchDistribution(alignment).  AlignedRegion belongs to
\* unassigner.alignment, which is not modelled: an alignment carries what
\* its region (without_endgaps, trim_ends) reports: alignment_len,
\* subject_len and count_matches().
ConstantMismatchDistribution(alignment) ==
    LET region_positions == alignment.region.alignment_len
        region_matches == alignment.region.matches
        region_mismatches == region_positions - region_matches
    IN  [alignment |-> alignment,
         query_id |-> alignment.query_id,
         region_positions |-> region_positions,
         region_matches |-> region_matches,
         region_mismatches |-> region_mismatches,
         alpha2 |-> 2 * region_mismatches + prior_alpha2,
         beta2 |-> 2 * region_matches + prior_beta2]

\* int(math.floor((1 - min_id) * total_positions)); the double 1 - 0.975 is
\* 0.025000000000000022, and the floor of its product with an integer total
\* is the floor of total / 40, as the exact quotient below
max_total_mismatches_of(total_positions) ==
    ((1000 - min_id) * total_positions) \div 1000

\* faulty variant: region_mismatches is added to the bound
unassign_threshold_SignSlip(self) ==
    LET nonregion_subject_positions ==
            self.alignment.subject_len - self.alignment.region.subject_len
        total_positions == self.region_positions + nonregion_subject_positions
        max_total_mismatches == max_total_mismatches_of(total_positions)
        max_nonregion_mismatches == max_total_mismatches + self.region_mismatches
        prob_compatible ==
            beta_binomial_cdf(max_nonregion_mismatches, nonregion_subject_positions,
                              self.alpha2, self.beta2)
        prob_incompatible == RatSub(Rat(1, 1), prob_compatible)
    IN  [typestrain_id |-> self.alignment.subject_id,
         probability_incompatible |-> prob_incompatible,
         region_mismatches |-> self.region_mismatches,
         region_positions |-> self.region_positions,
         region_matches |-> self.region_matches,
         nonregion_positions_in_subject |-> nonregion_subject_positions,
         max_nonregion_mismatches |-> max_nonregion_mismatches]

unassign_threshold(self) ==
    LET nonregion_subject_positions ==
            self.alignment.subject_len - self.alignment.region.subject_len
        total_positions == self.region_positions + nonregion_subject_positions
        max_total_mismatches == max_total_mismatches_of(total_positions)
        max_nonregion_mismatches == max_total_mismatches - self.region_mismatches
        prob_compatible ==
            beta_binomial_cdf(max_nonregion_mismatches, nonregion_subject_positions,
                              self.alpha2, self.beta2)
        prob_incompatible == RatSub(Rat(1, 1), prob_compatible)
    IN  [typestrain_id |-> self.alignment.subject_id,
         probability_incompatible |-> prob_incompatible,
         region_mismatches |-> self.region_mismatches,
         region_positions |-> self.region_positions,
         region_matches |-> self.region_matches,
         nonregion_positions_in_subject |-> nonregion_subject_positions,
         max_nonregion_mismatches |-> max_nonregion_mismatches]

\* an alignment, as the mismatch model reads it
Alignment(query_id, subject_id, percent_id, region_positions, region_matches, nonregion) ==
    [query_id |-> query_id, subject_id |-> subject_id, percent_id |-> percent_id,
     subject_len |-> region_positions + nonregion,
     region |-> [alignment_len |-> region_positions,
                 subject_len |-> region_positions,
                 matches |-> region_matches]]

\* the alignments the statistic is evaluated on: every region of up to
\* MaxRegion columns with up to MaxMismatch mismatches, and up to
\* MaxNonregion subject positions outside it
StatAlignments ==
    { a \in { Alignment("q1", "s1", 990, t[1], t[1] - t[2], t[3]) :
               t \in (0 .. MaxRegion) \X (0 .. MaxMismatch) \X (0 .. MaxNonregion) } :
        a.region.matches >= 0 }

\* self.mismatcher(a): two distributions are constructed, to be compared
NewMismatcher ==
    /\ Len(mm) < 2
    /\ \E a \in StatAlignments : mm' = Append(mm, ConstantMismatchDistribution(a))
    /\ UNCHANGED thr
    /\ UNCHANGED <<xvars, fvars, pvars, lvars>>

\* mm.unassign_threshold(), in the order of construction
UnassignThreshold ==
    /\ Len(thr) < Len(mm)
    /\ thr' = Append(thr, unassign_threshold(mm[Len(thr) + 1]))
    /\ UNCHANGED mm
    /\ UNCHANGED <<xvars, fvars, pvars, lvars>>

MNext == NewMismatcher \/ UnassignThreshold
(***************************************************************************)
(* UnassignerAlgorithm.  percent_id and alignment_min_percent_id are in    *)
(* thousandths (0.975 is 975).                                             *)
(***************************************************************************)
alignment_min_percent_id == 975

\* a into the descending list s, before the first element that is not
\* greater: sorted(..., reverse=True) is stable, equal keys keep their order
RECURSIVE InsertDesc(_, _)
InsertDesc(a, s) ==
    IF s = <<>> THEN <<a>>
    ELSE IF Head(s).percent_id > a.percent_id THEN <<Head(s)>> \o InsertDesc(a, Tail(s))
    ELSE <<a>> \o s

\* sorted(query_alignments, key=attrgetter('percent_id'), reverse=True)
RECURSIVE sorted_by_percent_id(_)
sorted_by_percent_id(s) ==
    IF s = <<>> THEN <<>> ELSE InsertDesc(Head(s), sorted_by_percent_id(Tail(s)))

\* faulty variant: an identity equal to the threshold passes
_filter_alignments_Inclusive(query_alignments) ==
    LET sorted_alignments == sorted_by_percent_id(query_alignments)
        filtered_alignments ==
            SelectSeq(sorted_alignments,
                      LAMBDA a : a.percent_id >= alignment_min_percent_id)
    IN  IF sorted_alignments # <<>> /\ filtered_alignments = <<>>
        THEN SubSeq(sorted_alignments, 1, 1)
        ELSE filtered_alignments

_filter_alignments(query_alignments) ==
    LET sorted_alignments == sorted_by_percent_id(query_alignments)
        filtered_alignments ==
            SelectSeq(sorted_alignments,
                      LAMBDA a : a.percent_id > alignment_min_percent_id)
    IN  IF sorted_alignments # <<>> /\ filtered_alignments = <<>>
        THEN SubSeq(sorted_alignments, 1, 1)
        ELSE filtered_alignments

\* the candidates _filter_alignments is called on
FilterPercentIds == {800, 900, 960, 975, 990}

FilterAlignments ==
    { Alignment("q1", sid, pid, 10, 10, 0) : sid \in {"s1", "s2"}, pid \in FilterPercentIds }

SeqsUpTo(S, n) == UNION { [1 .. k -> S] : k \in 0 .. n }

FilterCall ==
    /\ fcall = <<>>
    /\ \E query_alignments \in SeqsUpTo(FilterAlignments, MaxCandidates) :
        fcall' = <<[query_alignments |-> query_alignments,
                    retained |-> _filter_alignments(query_alignments)]>>
    /\ UNCHANGED <<xvars, mvars, pvars, lvars>>

FNext == FilterCall

Algorithms == {"UnassignerAlgorithm", "ThresholdAlgorithm"}

result_keys ==
    {"typestrain_id", "probability_incompatible", "region_mismatches",
     "region_positions", "region_matches", "nonregion_positions_in_subject",
     "max_nonregion_mismatches"}

\* the class attribute null_result of the class of self
null_result(cls) ==
    IF cls = "ThresholdAlgorithm" THEN [key \in result_keys |-> "NA"]
    ELSE [typestrain_id |-> "NA", region_mismatches |-> "NA",
          region_positions |-> "NA", probability_incompatible |-> "NA"]

\* faulty variant: a repeated query id is listed once
query_ids_of_Uniq(qs) ==
    LET firsts == { i \in 1 .. Len(qs) : \A j \in 1 .. i - 1 : qs[j][1] # qs[i][1] }
        f == [k \in 1 .. Cardinality(firsts) |->
                CHOOSE i \in firsts : Cardinality({j \in firsts : j <= i}) = k]
    IN  [k \in 1 .. Cardinality(firsts) |-> qs[f[k]][1]]

\* [seq_id for seq_id, seq in query_seqs]
query_ids_of(qs) == [i \in 1 .. Len(qs) |-> qs[i][1]]

\* [self.mismatcher(a) for a in ...], the part of it one query contributes
Mismatchers(alignments) ==
    [i \in 1 .. Len(alignments) |-> ConstantMismatchDistribution(alignments[i])]

\* for query_id, res in results: results_by_query[query_id].append(res)
RECURSIVE group_results(_, _)
group_results(rs, by_query) ==
    IF rs = <<>> THEN by_query
    ELSE group_results(Tail(rs),
                       [by_query EXCEPT ![Head(rs)[1]] = Append(@, Head(rs)[2])])

QueryIds == {"q1", "q2"}

\* what the aligner can yield: two alignments of q1 above the identity
\* threshold, one of q1 below it, and one of q2 below it
AlignerAlignments ==
    { Alignment("q1", "s1", 990, 40, 40, 2),
      Alignment("q1", "s2", 980, 40, 39, 2),
      Alignment("q1", "s3", 960, 40, 38, 2),
      Alignment("q2", "s1", 960, 10, 9, 0) }

\* the first next() on the generator: unassign runs up to the list
\* comprehension of step 2, which starts _align_query_to_type_strain and its
\* call of aligner.search_species
Start ==
    /\ pc = "created"
    /\ pc' = "align"
    /\ UNCHANGED <<algo, query_seqs, hits, aligner_raises, consumed, alignments_by_query,
                   qi, mm_distributions, results, results_by_query, emitted>>
    /\ UNCHANGED <<xvars, mvars, fvars, lvars>>

\* for a in unsorted_alignments: alignments_by_query[a.query_id].append(a)
ConsumeAlignment ==
    /\ pc = "align"
    /\ consumed < Len(hits)
    /\ LET a == hits[consumed + 1]
       IN  alignments_by_query' =
               [alignments_by_query EXCEPT ![a.query_id] = Append(@, a)]
    /\ consumed' = consumed + 1
    /\ UNCHANGED <<algo, query_seqs, hits, aligner_raises, pc, qi, mm_distributions,
                   results, results_by_query, emitted>>
    /\ UNCHANGED <<xvars, mvars, fvars, lvars>>

\* faulty variant: the aligner's exception is taken for the end of its hits
AlignerRaises_Swallowed ==
    /\ pc = "align"
    /\ consumed = Len(hits)
    /\ aligner_raises
    /\ pc' = "filter"
    /\ qi' = 1
    /\ UNCHANGED <<algo, query_seqs, hits, aligner_raises, consumed, alignments_by_query,
                   mm_distributions, results, results_by_query, emitted>>
    /\ UNCHANGED <<xvars, mvars, fvars, lvars>>

\* the aligner raises (extend_hit's ValueError, say): nothing in unassign
\* catches it
AlignerRaises ==
    /\ pc = "align"
    /\ consumed = Len(hits)
    /\ aligner_raises
    /\ pc' = "error"
    /\ UNCHANGED <<algo, query_seqs, hits, aligner_raises, consumed, alignments_by_query,
                   qi, mm_distributions, results, results_by_query, emitted>>
    /\ UNCHANGED <<xvars, mvars, fvars, lvars>>

\* the aligner is exhausted
AlignerDone ==
    /\ pc = "align"
    /\ consumed = Len(hits)
    /\ ~aligner_raises
    /\ pc' = "filter"
    /\ qi' = 1
    /\ UNCHANGED <<algo, query_seqs, hits, aligner_raises, consumed, alignments_by_query,
                   mm_distributions, results, results_by_query, emitted>>
    /\ UNCHANGED <<xvars, mvars, fvars, lvars>>

\* one round of "for query_id in query_ids" in _align_query_to_type_strain:
\* each alignment it yields goes through self.mismatcher in step 2
FilterQuery ==
    /\ pc = "filter"
    /\ qi <= Len(query_ids_of(query_seqs))
    /\ LET query_id == query_ids_of(query_seqs)[qi]
           query_alignments == _filter_alignments(alignments_by_query[query_id])
       IN  mm_distributions' = mm_distributions \o Mismatchers(query_alignments)
    /\ qi' = qi + 1
    /\ UNCHANGED <<algo, query_seqs, hits, aligner_raises, pc, consumed,
                   alignments_by_query, results, results_by_query, emitted>>
    /\ UNCHANGED <<xvars, mvars, fvars, lvars>>

\* self.mismatcher(a) raises on an alignment of the query at hand: the list
\* comprehension of step 2 is abandoned, nothing in unassign catches it
MismatcherRaises ==
    /\ pc = "filter"
    /\ qi <= Len(query_ids_of(query_seqs))
    /\ LET query_id == query_ids_of(query_seqs)[qi]
       IN  _filter_alignments(alignments_by_query[query_id]) # <<>>
    /\ pc' = "error"
    /\ UNCHANGED <<algo, query_seqs, hits, aligner_raises, consumed, alignments_by_query,
                   qi, mm_distributions, results, results_by_query, emitted>>
    /\ UNCHANGED <<xvars, mvars, fvars, lvars>>

\* mm.unassign_threshold() raises on one of the distributions: the list
\* comprehension of step 3 is abandoned, nothing in unassign catches it
ThresholdRaises ==
    /\ pc = "filter"
    /\ qi > Len(query_ids_of(query_seqs))
    /\ mm_distributions # <<>>
    /\ pc' = "error"
    /\ UNCHANGED <<algo, query_seqs, hits, aligner_raises, consumed, alignments_by_query,
                   qi, mm_distributions, results, results_by_query, emitted>>
    /\ UNCHANGED <<xvars, mvars, fvars, lvars>>

\* step 3, once _align_query_to_type_strain is exhausted
Threshold ==
    /\ pc = "filter"
    /\ qi > Len(query_ids_of(query_seqs))
    /\ results' = [i \in 1 .. Len(mm_distributions) |->
                     <<mm_distributions[i].query_id,
                       unassign_threshold(mm_distributions[i])>>]
    /\ pc' = "group"
    /\ UNCHANGED <<algo, query_seqs, hits, aligner_raises, consumed, alignments_by_query,
                   qi, mm_distributions, results_by_query, emitted>>
    /\ UNCHANGED <<xvars, mvars, fvars, lvars>>

\* step 4, the grouping
Group ==
    /\ pc = "group"
    /\ results_by_query' = group_results(results, results_by_query)
    /\ pc' = "emit"
    /\ qi' = 1
    /\ UNCHANGED <<algo, query_seqs, hits, aligner_raises, consumed, alignments_by_query,
                   mm_distributions, results, emitted>>
    /\ UNCHANGED <<xvars, mvars, fvars, lvars>>

\* step 4, one round of "for query_id in query_ids": one yield
Emit ==
    /\ pc = "emit"
    /\ qi <= Len(query_ids_of(query_seqs))
    /\ LET query_id == query_ids_of(query_seqs)[qi]
           query_results == results_by_query[query_id]
       IN  emitted' = Append(emitted,
                             <<query_id,
                               IF query_results = <<>> THEN <<null_result(algo)>>
                               ELSE query_results>>)
    /\ qi' = qi + 1
    /\ UNCHANGED <<algo, query_seqs, hits, aligner_raises, pc, consumed,
                   alignments_by_query, mm_distributions, results, results_by_query>>
    /\ UNCHANGED <<xvars, mvars, fvars, lvars>>

\* the generator is exhausted
Finish ==
    /\ pc = "emit"
    /\ qi > Len(query_ids_of(query_seqs))
    /\ pc' = "done"
    /\ UNCHANGED <<algo, query_seqs, hits, aligner_raises, consumed, alignments_by_query,
                   qi, mm_distributions, results, results_by_query, emitted>>
    /\ UNCHANGED <<xvars, mvars, fvars, lvars>>

PNext ==
    \/ Start
    \/ ConsumeAlignment
    \/ AlignerRaises
    \/ AlignerDone
    \/ FilterQuery
    \/ MismatcherRaises
    \/ Threshold
    \/ ThresholdRaises
    \/ Group
    \/ Emit
    \/ Finish

(***************************************************************************)
(* The legacy Unassigner (src/unassign/command.py)                         *)
(***************************************************************************)
\* uniq(xs): the entries of xs without repetition, in first-occurrence order
RECURSIVE uniq(_)
uniq(xs) ==
    IF xs = <<>> THEN <<>>
    ELSE LET before == uniq(SubSeq(xs, 1, Len(xs) - 1))
             last == xs[Len(xs)]
         IN  IF \E i \in 1 .. Len(before) : before[i] = last THEN before
             ELSE Append(before, last)

\* _get_species_seqs: one (id, sequence) pair per distinct species hit
_get_species_seqs(s_hits) ==
    LET species_hit_ids == uniq([i \in 1 .. Len(s_hits) |-> s_hits[i].sseqid])
    IN  [i \in 1 .. Len(species_hit_ids) |-> <<species_hit_ids[i], "ACGT">>]

\* the reference hits BLAST reports for one type strain
RefHitsOf(species_id) ==
    <<[qseqid |-> species_id, sseqid |-> "r1"], [qseqid |-> species_id, sseqid |-> "r2"]>>

\* aligner.align_typestrain_to_refseqs: the hits of each type strain, in the
\* order of the type strains; a strain the database has nothing for
\* contributes no hit
RECURSIVE align_typestrain_to_refseqs(_, _)
align_typestrain_to_refseqs(species_hit_seqs, database) ==
    IF species_hit_seqs = <<>> THEN <<>>
    ELSE (IF Head(species_hit_seqs)[1] \in database
          THEN RefHitsOf(Head(species_hit_seqs)[1]) ELSE <<>>)
         \o align_typestrain_to_refseqs(Tail(species_hit_seqs), database)

\* group_by_query: the runs of consecutive hits with the same qseqid, each
\* as (qseqid, hits)
RECURSIVE group_by_query(_)
group_by_query(refseq_hits) ==
    IF refseq_hits = <<>> THEN <<>>
    ELSE LET before == group_by_query(SubSeq(refseq_hits, 1, Len(refseq_hits) - 1))
             last == refseq_hits[Len(refseq_hits)]
         IN  IF before # <<>> /\ before[Len(before)][1] = last.qseqid
             THEN [before EXCEPT ![Len(before)] = <<@[1], Append(@[2], last)>>]
             ELSE Append(before, <<last.qseqid, <<last>>>>)

SpeciesIds == {"sA", "sB", "sC"}

SpeciesHits == { [qseqid |-> "q1", sseqid |-> sid] : sid \in SpeciesIds }

\* Unassigner.unassign up to the grouping of the reference hits
LAlign ==
    /\ lpc = "start"
    /\ LET species_hit_seqs == _get_species_seqs(species_hits)
           refseq_hits == align_typestrain_to_refseqs(species_hit_seqs, ref_db)
       IN  grouped_refseq_hits' = group_by_query(refseq_hits)
    /\ lpc' = "grouped"
    /\ UNCHANGED <<species_hits, ref_db, gi, r_hits_species_id, r_hits, si, evaluated>>
    /\ UNCHANGED <<xvars, mvars, fvars, pvars>>

\* r_hits_species_id, r_hits = next(grouped_refseq_hits), before the loop
LFirstGroup ==
    /\ lpc = "grouped"
    /\ IF gi < Len(grouped_refseq_hits)
       THEN /\ r_hits_species_id' = grouped_refseq_hits[gi + 1][1]
            /\ r_hits' = grouped_refseq_hits[gi + 1][2]
            /\ gi' = gi + 1
            /\ lpc' = "loop"
            /\ si' = 1
       ELSE /\ lpc' = "StopIteration"
            /\ UNCHANGED <<gi, r_hits_species_id, r_hits, si>>
    /\ UNCHANGED <<species_hits, ref_db, grouped_refseq_hits, evaluated>>
    /\ UNCHANGED <<xvars, mvars, fvars, pvars>>

\* one round of "for s_hit in species_hits"
LSpeciesHit ==
    /\ lpc = "loop"
    /\ si <= Len(species_hits)
    /\ LET s_hit == species_hits[si]
           species_id == s_hit.sseqid
       IN  IF species_id # r_hits_species_id /\ gi >= Len(grouped_refseq_hits)
           THEN \* next() on the exhausted iterator
                /\ lpc' = "StopIteration"
                /\ UNCHANGED <<gi, r_hits_species_id, r_hits, si, evaluated>>
           ELSE LET advance == species_id # r_hits_species_id
                    group_id == IF advance THEN grouped_refseq_hits[gi + 1][1]
                                ELSE r_hits_species_id
                    group == IF advance THEN grouped_refseq_hits[gi + 1][2] ELSE r_hits
                IN  /\ gi' = IF advance THEN gi + 1 ELSE gi
                    /\ r_hits_species_id' = group_id
                    /\ r_hits' = group
                    /\ IF species_id # group_id
                       THEN /\ lpc' = "RuntimeError"
                            /\ UNCHANGED <<si, evaluated>>
                       ELSE /\ evaluated' =
                                   Append(evaluated,
                                          [species_hit |-> s_hit, group_id |-> group_id,
                                           refseq_hits |-> group])
                            /\ si' = si + 1
                            /\ lpc' = lpc
    /\ UNCHANGED <<species_hits, ref_db, grouped_refseq_hits>>
    /\ UNCHANGED <<xvars, mvars, fvars, pvars>>

\* the loop is over: unassign returns
LReturn ==
    /\ lpc = "loop"
    /\ si > Len(species_hits)
    /\ lpc' = "done"
    /\ UNCHANGED <<species_hits, ref_db, grouped_refseq_hits, gi, r_hits_species_id,
                   r_hits, si, evaluated>>
    /\ UNCHANGED <<xvars, mvars, fvars, pvars>>

LNext == LAlign \/ LFirstGroup \/ LSpeciesHit \/ LReturn

(***************************************************************************)
(* Specifications: one per component, the other components idle            *)
(***************************************************************************)
\* a BlastExtender is constructed; nothing else exists
InitExtend ==
    /\ seqs \in SeqDicts
    /\ db \in DbDicts
    /\ xcall = <<>>
    /\ mm = <<>>
    /\ thr = <<>>
    /\ fcall = <<>>
    /\ algo = "UnassignerAlgorithm"
    /\ query_seqs = <<>>
    /\ hits = <<>>
    /\ aligner_raises = FALSE
    /\ pc = "idle"
    /\ consumed = 0
    /\ alignments_by_query = [q \in QueryIds |-> <<>>]
    /\ qi = 0
    /\ mm_distributions = <<>>
    /\ results = <<>>
    /\ results_by_query = [q \in QueryIds |-> <<>>]
    /\ emitted = <<>>
    /\ species_hits = <<>>
    /\ ref_db = {}
    /\ lpc = "idle"
    /\ grouped_refseq_hits = <<>>
    /\ gi = 0
    /\ r_hits_species_id = ""
    /\ r_hits = <<>>
    /\ si = 0
    /\ evaluated = <<>>

SpecExtend == InitExtend /\ [][XNext]_vars

\* no mismatch distribution is constructed yet; nothing else exists
InitMismatch ==
    /\ seqs = {}
    /\ db = {}
    /\ xcall = <<>>
    /\ mm = <<>>
    /\ thr = <<>>
    /\ fcall = <<>>
    /\ algo = "UnassignerAlgorithm"
    /\ query_seqs = <<>>
    /\ hits = <<>>
    /\ aligner_raises = FALSE
    /\ pc = "idle"
    /\ consumed = 0
    /\ alignments_by_query = [q \in QueryIds |-> <<>>]
    /\ qi = 0
    /\ mm_distributions = <<>>
    /\ results = <<>>
    /\ results_by_query = [q \in QueryIds |-> <<>>]
    /\ emitted = <<>>
    /\ species_hits = <<>>
    /\ ref_db = {}
    /\ lpc = "idle"
    /\ grouped_refseq_hits = <<>>
    /\ gi = 0
    /\ r_hits_species_id = ""
    /\ r_hits = <<>>
    /\ si = 0
    /\ evaluated = <<>>

SpecMismatch == InitMismatch /\ [][MNext]_vars

\* _filter_alignments is about to be called; nothing else exists
InitFilter ==
    /\ seqs = {}
    /\ db = {}
    /\ xcall = <<>>
    /\ mm = <<>>
    /\ thr = <<>>
    /\ fcall = <<>>
    /\ algo = "UnassignerAlgorithm"
    /\ query_seqs = <<>>
    /\ hits = <<>>
    /\ aligner_raises = FALSE
    /\ pc = "idle"
    /\ consumed = 0
    /\ alignments_by_query = [q \in QueryIds |-> <<>>]
    /\ qi = 0
    /\ mm_distributions = <<>>
    /\ results = <<>>
    /\ results_by_query = [q \in QueryIds |-> <<>>]
    /\ emitted = <<>>
    /\ species_hits = <<>>
    /\ ref_db = {}
    /\ lpc = "idle"
    /\ grouped_refseq_hits = <<>>
    /\ gi = 0
    /\ r_hits_species_id = ""
    /\ r_hits = <<>>
    /\ si = 0
    /\ evaluated = <<>>

SpecFilter == InitFilter /\ [][FNext]_vars

\* an algorithm object is constructed and unassign(query_seqs) is called on
\* it: the generator is created and has not run yet
InitUnassign ==
    /\ seqs = {}
    /\ db = {}
    /\ xcall = <<>>
    /\ mm = <<>>
    /\ thr = <<>>
    /\ fcall = <<>>
    /\ algo \in Algorithms
    /\ query_seqs \in SeqsUpTo(QueryIds \X {"ACGT"}, MaxQueries)
    /\ hits \in SeqsUpTo(AlignerAlignments, MaxHits)
    /\ aligner_raises \in BOOLEAN
    /\ pc = "created"
    /\ consumed = 0
    /\ alignments_by_query = [q \in QueryIds |-> <<>>]
    /\ qi = 0
    /\ mm_distributions = <<>>
    /\ results = <<>>
    /\ results_by_query = [q \in QueryIds |-> <<>>]
    /\ emitted = <<>>
    /\ species_hits = <<>>
    /\ ref_db = {}
    /\ lpc = "idle"
    /\ grouped_refseq_hits = <<>>
    /\ gi = 0
    /\ r_hits_species_id = ""
    /\ r_hits = <<>>
    /\ si = 0
    /\ evaluated = <<>>

SpecUnassign == InitUnassign /\ [][PNext]_vars

\* a legacy Unassigner is constructed and unassign(query_fp) is called:
\* the aligner has returned the species hits; nothing else exists
InitLegacy ==
    /\ seqs = {}
    /\ db = {}
    /\ xcall = <<>>
    /\ mm = <<>>
    /\ thr = <<>>
    /\ fcall = <<>>
    /\ algo = "UnassignerAlgorithm"
    /\ query_seqs = <<>>
    /\ hits = <<>>
    /\ aligner_raises = FALSE
    /\ pc = "idle"
    /\ consumed = 0
    /\ alignments_by_query = [q \in QueryIds |-> <<>>]
    /\ qi = 0
    /\ mm_distributions = <<>>
    /\ results = <<>>
    /\ results_by_query = [q \in QueryIds |-> <<>>]
    /\ emitted = <<>>
    /\ species_hits \in SeqsUpTo(SpeciesHits, MaxSpeciesHits)
    /\ ref_db \in SUBSET SpeciesIds
    /\ lpc = "start"
    /\ grouped_refseq_hits = <<>>
    /\ gi = 0
    /\ r_hits_species_id = ""
    /\ r_hits = <<>>
    /\ si = 0
    /\ evaluated = <<>>

SpecLegacy == InitLegacy /\ [][LNext]_vars

(***************************************************************************)
(* Claims about BlastExtender.extend_hit (checked under SpecExtend)        *)
(***************************************************************************)
\* the full sequences are stored under the hit's ids with the lengths the
\* hit reports (both lookups succeed and both assertions pass)
Stored(hit) ==
    /\ \E p \in seqs : p[1] = hit.qseqid /\ Len(p[2]) = hit.qlen
    /\ \E p \in db : p[1] = hit.sseqid /\ Len(p[2]) = hit.slen

FullQuery(hit) == (CHOOSE p \in seqs : p[1] = hit.qseqid)[2]

FullSubject(hit) == (CHOOSE p \in db : p[1] = hit.sseqid)[2]

\* every coordinate lies in 1 .. the full length of its sequence
InRange(hit) ==
    /\ 1 <= hit.qstart /\ hit.qstart <= hit.qlen
    /\ 1 <= hit.qend /\ hit.qend <= hit.qlen
    /\ 1 <= hit.sstart /\ hit.sstart <= hit.slen
    /\ 1 <= hit.send /\ hit.send <= hit.slen

IsGlobalHit(hit) ==
    hit.qstart = 1 /\ hit.sstart = 1 /\ hit.qend = hit.qlen /\ hit.send = hit.slen

BothOverhangLeft(hit) == hit.qstart > 1 /\ hit.sstart > 1

BothOverhangRight(hit) == hit.qend < hit.qlen /\ hit.send < hit.slen

Dashes(n) == [i \in 1 .. n |-> "-"]

\* the pad the claim describes for one side of one end: own is the overhang
\* of the sequence being padded, other the overhang of the other sequence,
\* bases its overhanging bases
ExpectedPad(own, other, bases) ==
    IF own > 0 /\ other = 0 THEN bases
    ELSE IF own = 0 /\ other > 0 THEN Dashes(other)
    ELSE <<>>

ExpectedQuery(hit) ==
    LET full == FullQuery(hit)
        kl == hit.qstart - 1
        kr == hit.qlen - hit.qend
    IN  ExpectedPad(kl, hit.sstart - 1, SubSeq(full, 1, kl))
        \o hit.qseq
        \o ExpectedPad(kr, hit.slen - hit.send, SubSeq(full, Len(full) - kr + 1, Len(full)))

ExpectedSubject(hit) ==
    LET full == FullSubject(hit)
        kl == hit.sstart - 1
        kr == hit.slen - hit.send
    IN  ExpectedPad(kl, hit.qstart - 1, SubSeq(full, 1, kl))
        \o hit.sseq
        \o ExpectedPad(kr, hit.qlen - hit.qend, SubSeq(full, Len(full) - kr + 1, Len(full)))

PaddingCase(hit) ==
    /\ InRange(hit)
    /\ ~IsGlobalHit(hit)
    /\ ~BothOverhangLeft(hit)
    /\ ~BothOverhangRight(hit)
    /\ Len(hit.qseq) = Len(hit.sseq)
    /\ Stored(hit)

\* C1: for an in-range hit that is neither global nor in need of
\* realignment, with aligned substrings of equal length (and its full
\* sequences stored), extend_hit returns left pad + qseq + right pad and
\* left pad + sseq + right pad, the pads being the overhanging bases on the
\* overhanging side and as many '-' on the other, and the two aligned
\* strings have the same length.
C1_EndgapPadding ==
    \A i \in 1 .. Len(xcall) :
        LET hit == xcall[i].hit
            r == xcall[i].result
        IN  PaddingCase(hit) =>
                /\ r.status = "ok"
                /\ r.aligned_qseq = ExpectedQuery(hit)
                /\ r.aligned_sseq = ExpectedSubject(hit)
                /\ Len(r.aligned_qseq) = Len(r.aligned_sseq)

\* C1 witness: the query overhangs two bases on the left, the subject one
\* base on the right, and both ends were padded.
C1_Witness ==
    /\ Len(xcall) = 1
    /\ PaddingCase(xcall[1].hit)
    /\ xcall[1].hit.qstart = 3 /\ xcall[1].hit.sstart = 1
    /\ xcall[1].hit.qend = xcall[1].hit.qlen
    /\ xcall[1].hit.send = 1 /\ xcall[1].hit.slen = 2
    /\ xcall[1].hit.qseq = <<"a", "-">>
    /\ xcall[1].result.aligned_qseq = <<"A", "C", "a", "-", "-">>
    /\ xcall[1].result.aligned_sseq = <<"-", "-", "a", "c", "G">>

\* a start coordinate below 1 or an end coordinate beyond the full length
OutOfRange(hit) ==
    \/ hit.qstart < 1
    \/ hit.sstart < 1
    \/ hit.qend > hit.qlen
    \/ hit.send > hit.slen

\* C2: every hit with a start coordinate below 1 or an end coordinate beyond
\* its full length makes extend_hit raise ValueError, whatever its other
\* coordinates are (the full sequences being stored with the lengths the hit
\* reports).
C2_OutOfRangeRaises ==
    \A i \in 1 .. Len(xcall) :
        (OutOfRange(xcall[i].hit) /\ Stored(xcall[i].hit)) =>
            xcall[i].result.status = "ValueError"

InTrace(r, step) == \E j \in 1 .. Len(r.trace) : r.trace[j] = step

\* C3: a non-global hit in which query and subject overhang on the same end
\* is realigned: extend_hit returns align_semiglobal of the two full
\* sequences and runs no padding helper; and no padding helper is ever
\* entered with both sequences overhanging on the end it handles.
C3_BothOverhangRealigns ==
    \A i \in 1 .. Len(xcall) :
        LET hit == xcall[i].hit
            r == xcall[i].result
        IN  /\ (~IsGlobalHit(hit) /\ (BothOverhangLeft(hit) \/ BothOverhangRight(hit))) =>
                /\ ~InTrace(r, "_add_endgaps_left")
                /\ ~InTrace(r, "_add_endgaps_right")
                /\ Stored(hit) =>
                    /\ r.status = "ok"
                    /\ r.trace[Len(r.trace)] = "align_semiglobal"
                    /\ r.aligned_qseq =
                         <<"globalms(">> \o FullSubject(hit) \o <<",">>
                         \o FullQuery(hit) \o <<")[", "1", "]">>
                    /\ r.aligned_sseq =
                         <<"globalms(">> \o FullSubject(hit) \o <<",">>
                         \o FullQuery(hit) \o <<")[", "0", "]">>
            /\ InTrace(r, "_add_endgaps_left") => ~BothOverhangLeft(hit)
            /\ InTrace(r, "_add_endgaps_right") => ~BothOverhangRight(hit)

\* C3 witness: query and subject both overhang on the right only, and the
\* call returned the realignment.
C3_Witness ==
    /\ Len(xcall) = 1
    /\ BothOverhangRight(xcall[1].hit)
    /\ ~BothOverhangLeft(xcall[1].hit)
    /\ InRange(xcall[1].hit)
    /\ xcall[1].result.status = "ok"
    /\ InTrace(xcall[1].result, "align_semiglobal")

\* C4: for a hit with qstart = sstart = 1, qend = qlen and send = slen,
\* extend_hit returns the hit's qseq and sseq unchanged, and neither looks
\* up the full query nor fetches the full subject.
C4_GlobalUnchanged ==
    \A i \in 1 .. Len(xcall) :
        LET hit == xcall[i].hit
            r == xcall[i].result
        IN  IsGlobalHit(hit) =>
                /\ r.status = "ok"
                /\ r.aligned_qseq = hit.qseq
                /\ r.aligned_sseq = hit.sseq
                /\ r.trace = <<>>

\* C4 witness: a global hit, of sequences of different lengths, was extended
\* while neither full sequence is stored.
C4_Witness ==
    /\ Len(xcall) = 1
    /\ IsGlobalHit(xcall[1].hit)
    /\ xcall[1].hit.qlen # xcall[1].hit.slen
    /\ seqs = {} /\ db = {}
    /\ xcall[1].result.status = "ok"

(***************************************************************************)
(* Claims about the mismatch statistic (checked under SpecMismatch)        *)
(***************************************************************************)
\* the inputs of the i-th evaluation, read off the alignment
RegionPositions(i) == mm[i].alignment.region.alignment_len

RegionMismatches(i) ==
    mm[i].alignment.region.alignment_len - mm[i].alignment.region.matches

NonregionPositions(i) ==
    mm[i].alignment.subject_len - mm[i].alignment.region.subject_len

\* floor((1 - 0.975) * (region + nonregion)) - region_mismatches
MaxNonregionMismatches(i) ==
    ((RegionPositions(i) + NonregionPositions(i)) \div 40) - RegionMismatches(i)

\* C8: beta_binomial_cdf returns exactly 0 (the untouched initial sum) for
\* every k_max < 0; so whenever floor((1 - min_id) * (region_positions +
\* nonregion_positions)) - region_mismatches is negative, unassign_threshold
\* reports that bound and probability_incompatible exactly 1.
C8_NegativeBoundGivesOne ==
    \A i \in 1 .. Len(thr) :
        /\ thr[i].max_nonregion_mismatches = MaxNonregionMismatches(i)
        /\ \A k_max \in -3 .. -1 :
              beta_binomial_cdf(k_max, NonregionPositions(i), mm[i].alpha2, mm[i].beta2)
                  = [num |-> 0, den |-> 1]
        /\ MaxNonregionMismatches(i) < 0 =>
              thr[i].probability_incompatible = [num |-> 1, den |-> 1]

\* C8 witness: region_positions = 10, region_mismatches = 1, no non-region
\* position: the bound is -1 and probability_incompatible is 1.
C8_Witness ==
    \E i \in 1 .. Len(thr) :
        /\ RegionPositions(i) = 10
        /\ RegionMismatches(i) = 1
        /\ NonregionPositions(i) = 0
        /\ thr[i].max_nonregion_mismatches = -1
        /\ thr[i].probability_incompatible = [num |-> 1, den |-> 1]

\* two evaluated alignments with the same region_positions and the same
\* number of non-region positions, the second with more region mismatches
Comparable(i, j) ==
    /\ i \in 1 .. Len(thr) /\ j \in 1 .. Len(thr)
    /\ RegionPositions(i) = RegionPositions(j)
    /\ NonregionPositions(i) = NonregionPositions(j)
    /\ RegionMismatches(i) < RegionMismatches(j)

\* C9, as claimed: with region_positions and the non-region positions held
\* fixed, more region_mismatches give a strictly greater
\* probability_incompatible.
C9_StrictlyIncreasing ==
    \A i, j \in 1 .. Len(thr) :
        Comparable(i, j) =>
            RatLess(thr[i].probability_incompatible, thr[j].probability_incompatible)

\* C9, amended: with region_positions and the non-region positions held
\* fixed, more region_mismatches never give a smaller
\* probability_incompatible, and give a strictly greater one exactly when
\* the bound of the alignment with fewer mismatches is not negative and the
\* bound of the one with more mismatches is below the number of non-region
\* positions (otherwise both are 1, or both are 0).
C9_NonDecreasing ==
    \A i, j \in 1 .. Len(thr) :
        Comparable(i, j) =>
            /\ RatLeq(thr[i].probability_incompatible, thr[j].probability_incompatible)
            /\ RatLess(thr[i].probability_incompatible, thr[j].probability_incompatible)
                 <=> /\ MaxNonregionMismatches(i) >= 0
                     /\ MaxNonregionMismatches(j) < NonregionPositions(j)

\* C9 witness: two comparable alignments whose probabilities lie strictly
\* between 0 and 1, the one with more mismatches strictly greater.
C9_Witness ==
    \E i, j \in 1 .. Len(thr) :
        /\ Comparable(i, j)
        /\ thr[i].probability_incompatible.num > 0
        /\ RatLess(thr[i].probability_incompatible, thr[j].probability_incompatible)
        /\ thr[j].probability_incompatible.num < thr[j].probability_incompatible.den

(***************************************************************************)
(* Claims about _filter_alignments (checked under SpecFilter)              *)
(***************************************************************************)
\* the positions of the candidates whose identity is above the threshold
Passing(cands) == { i \in 1 .. Len(cands) : cands[i].percent_id > 975 }

\* out lists exactly the candidates at the positions P, each once, by
\* identity descending and, among equal identities, in the order of cands
ListsInOrder(out, cands, P) ==
    \E f \in [1 .. Len(out) -> P] :
        /\ \A i \in P : \E k \in 1 .. Len(out) : f[k] = i
        /\ \A k \in 1 .. Len(out) : out[k] = cands[f[k]]
        /\ \A k, l \in 1 .. Len(out) :
              k < l => \/ out[k].percent_id > out[l].percent_id
                       \/ out[k].percent_id = out[l].percent_id /\ f[k] < f[l]

\* the first position of cands holding its highest identity
FirstHighest(cands) ==
    CHOOSE i \in 1 .. Len(cands) :
        /\ \A j \in 1 .. Len(cands) : cands[j].percent_id <= cands[i].percent_id
        /\ \A j \in 1 .. i - 1 : cands[j].percent_id < cands[i].percent_id

PercentIds(s) == [i \in 1 .. Len(s) |-> s[i].percent_id]

\* C6: _filter_alignments returns, by identity descending with ties in the
\* aligner's order, exactly the candidates strictly above
\* alignment_min_percent_id; if there are candidates and none is above, the
\* single highest one; the empty list only for no candidate.  [0.99, 0.96,
\* 0.80] gives [0.99] and [0.90, 0.80] gives [0.90].
C6_FilterRetains ==
    \A c \in 1 .. Len(fcall) :
        LET cands == fcall[c].query_alignments
            out == fcall[c].retained
        IN  /\ Passing(cands) # {} => ListsInOrder(out, cands, Passing(cands))
            /\ (cands # <<>> /\ Passing(cands) = {}) => out = <<cands[FirstHighest(cands)]>>
            /\ out = <<>> <=> cands = <<>>
            /\ PercentIds(cands) = <<990, 960, 800>> => PercentIds(out) = <<990>>
            /\ PercentIds(cands) = <<900, 800>> => PercentIds(out) = <<900>>

\* C6 witness: a candidate at the threshold and two equal ones above it, out
\* of order: the one at the threshold is dropped, the two keep their order.
C6_Witness ==
    /\ Len(fcall) = 1
    /\ PercentIds(fcall[1].query_alignments) = <<975, 990, 990>>
    /\ fcall[1].query_alignments[2].subject_id = "s2"
    /\ fcall[1].query_alignments[3].subject_id = "s1"
    /\ PercentIds(fcall[1].retained) = <<990, 990>>
    /\ fcall[1].retained[1].subject_id = "s2"

(***************************************************************************)
(* Claims about UnassignerAlgorithm.unassign (checked under SpecUnassign)  *)
(***************************************************************************)
\* the alignments the aligner yields for a query id, in the aligner's order
Candidates(query_id) == SelectSeq(hits, LAMBDA a : a.query_id = query_id)

IsSentinel(query_results) ==
    Len(query_results) >= 1 /\ query_results[1].typestrain_id = "NA"

\* C5: a query without candidate alignments is emitted, at its input
\* position, with exactly one result whose seven fields are all "NA", for
\* the base class and for ThresholdAlgorithm; and only such a query gets the
\* sentinel.
C5_SentinelAllNA ==
    \A i \in 1 .. Len(emitted) :
        LET query_results == emitted[i][2]
        IN  /\ Candidates(query_seqs[i][1]) = <<>> =>
                /\ emitted[i][1] = query_seqs[i][1]
                /\ Len(query_results) = 1
                /\ DOMAIN query_results[1] = result_keys
                /\ \A key \in DOMAIN query_results[1] : query_results[1][key] = "NA"
            /\ IsSentinel(query_results) => Candidates(emitted[i][1]) = <<>>

\* C7: unassign emits one entry per input pair, and the emitted query ids
\* are the input query ids in input order, whatever order the aligner
\* yields its alignments in.
C7_EmitsInInputOrder ==
    /\ Len(emitted) <= Len(query_seqs)
    /\ \A i \in 1 .. Len(emitted) : emitted[i][1] = query_seqs[i][1]
    /\ pc = "done" => Len(emitted) = Len(query_seqs)

\* C7 witness: the aligner yields q1's alignment before q2's, the input
\* lists q2 before q1 and then q2 again, and the run is complete.
C7_Witness ==
    /\ pc = "done"
    /\ Len(query_seqs) = 3
    /\ query_seqs[1][1] = "q2" /\ query_seqs[2][1] = "q1" /\ query_seqs[3][1] = "q2"
    /\ Len(hits) = 2
    /\ hits[1].query_id = "q1" /\ hits[2].query_id = "q2"
    /\ Len(emitted) = 3
    /\ emitted[1][1] = "q2" /\ emitted[2][1] = "q1" /\ emitted[3][1] = "q2"

\* C10: every emitted result list that is not the sentinel holds exactly
\* one result per alignment the filter retained for its query, in the
\* filter's order, also when a query id occurs in several input pairs.
C10_OneResultPerRetained ==
    \A i \in 1 .. Len(emitted) :
        LET query_results == emitted[i][2]
            retained == _filter_alignments(Candidates(emitted[i][1]))
        IN  ~IsSentinel(query_results) =>
                /\ Len(query_results) = Len(retained)
                /\ \A k \in 1 .. Len(query_results) :
                      query_results[k] =
                          unassign_threshold(ConstantMismatchDistribution(retained[k]))

\* the alignments retained for the first k input queries, in the order
\* step 2 meets them
RECURSIVE RetainedUpTo(_)
RetainedUpTo(k) ==
    IF k = 0 THEN <<>>
    ELSE RetainedUpTo(k - 1)
         \o _filter_alignments(Candidates(query_ids_of(query_seqs)[k]))

AllRetained == RetainedUpTo(Len(query_ids_of(query_seqs)))

\* C12: once anything is emitted the aligner has been consumed to its end
\* without an error and the statistic has been computed for every retained
\* alignment of every query; and a run in which the aligner or a statistic
\* raises has emitted nothing, for no query of the batch.
C12_AllOrNothing ==
    /\ emitted # <<>> =>
          /\ pc \in {"emit", "done"}
          /\ consumed = Len(hits)
          /\ ~aligner_raises
          /\ mm_distributions = Mismatchers(AllRetained)
          /\ Len(results) = Len(AllRetained)
          /\ \A i \in 1 .. Len(results) :
                results[i] = <<AllRetained[i].query_id,
                               unassign_threshold(ConstantMismatchDistribution(AllRetained[i]))>>
    /\ pc = "error" => emitted = <<>>
    /\ aligner_raises => emitted = <<>>

\* the aligner raises after it has yielded a retained alignment of the first
\* of several queries: the run is over and nothing was emitted
C12_Witness ==
    /\ pc = "error"
    /\ aligner_raises
    /\ Len(query_seqs) >= 2
    /\ consumed >= 1
    /\ hits[1].query_id = query_seqs[1][1]
    /\ _filter_alignments(<<hits[1]>>) # <<>>
    /\ emitted = <<>>

(***************************************************************************)
(* Claims about the legacy Unassigner                   (SpecLegacy)       *)
(***************************************************************************)
\* the reference hits hold a group for this species id
HasGroup(species_id) ==
    \E g \in 1 .. Len(grouped_refseq_hits) : grouped_refseq_hits[g][1] = species_id

\* some species hit of the run has no group among the reference hits
MissingGroup ==
    \E i \in 1 .. Len(species_hits) : ~HasGroup(species_hits[i].sseqid)

\* unassign has returned or raised
LTerminated == lpc \in {"done", "RuntimeError", "StopIteration"}

\* _evaluate_confidence was only called with the group of the hit's species
OnlyMatchingGroup ==
    \A k \in 1 .. Len(evaluated) :
        /\ evaluated[k].group_id = evaluated[k].species_hit.sseqid
        /\ evaluated[k].refseq_hits = RefHitsOf(evaluated[k].species_hit.sseqid)

\* C11: _evaluate_confidence is only ever called with the reference-hit
\* group of the species hit's subject id, and a finished run has failed
\* with RuntimeError exactly when some species hit has no group among the
\* reference hits, a missing last group included.
C11_RuntimeErrorIffMissingGroup ==
    /\ OnlyMatchingGroup
    /\ LTerminated => (lpc = "RuntimeError" <=> MissingGroup)

====
